---- MODULE Spec2Model ----
(***************************************************************************)
(* State-machine model of src/virtual-list/virtual-list.vue: the windowing *)
(* and dynamic-height engine of the virtual list component.                *)
(*                                                                         *)
(* Numbers.  The component computes with JavaScript numbers; heights,      *)
(* averages and offsets are fractions (a batch mean, the 0.7/0.3 blend).   *)
(* They are modelled as exact rationals <<n, d>> in lowest terms (d > 0).  *)
(* The JavaScript value `undefined` (an array hole, a missing key) is the  *)
(* pair <<0, 0>>.                                                          *)
(*                                                                         *)
(* Time.  setTimeout only promises a minimal delay, so a pending timer     *)
(* may fire at any later moment; the throttle's clock comparison is the    *)
(* flag throttleReady (TRUE once 32 ms have passed since the last accepted *)
(* call).                                                                  *)
(*                                                                         *)
(* Geometry.  A selector query selects the rendered items when it is       *)
(* executed and delivers their rects to its callback later; the rendered   *)
(* items are those of virtualList at execution time, and the heights the   *)
(* host reports are drawn from a small set of height profiles.             *)
(***************************************************************************)
EXTENDS Integers, Sequences, FiniteSets, TLC

\* ------------------------------------------------------------------ bounds
\* props.virtualListLength (default 20), scaled down
VirtualListLength == 3
\* props.preloadCount (default 10), scaled down
PreloadCount == 3
\* props.itemHeight (default 100), scaled down
ItemHeight == 10
\* lengths of the lists the parent assigns: 0, ShortLen (< VirtualListLength),
\* LongLen (> VirtualListLength + 2 * PreloadCount)
ShortLen == 2
LongLen == 10
\* number of height profiles the rendered items are drawn from
NumProfiles == 3
\* scroll offsets reported by the viewport: 0 and the middle of rows 1, 3, 7, ...
\* of nominal height, MaxScrollK of them
MaxScrollK == 3
\* inputs of the host after setup: list replacements, accepted scroll events,
\* boundary events and calls of the exposed methods
MaxEvents == 2
\* measurements under way at once: pending sample, measure and element timers
\* plus geometry queries in flight
MaxOutstanding == 1
\* geometry queries executed in one run
MaxQueries == 2

ListLens == {0, ShortLen, LongLen}
ScrollTops ==
  {0} \cup {(2^k - 1) * ItemHeight + ItemHeight \div 2 : k \in 1..MaxScrollK}
Profiles == 1..NumProfiles
PositionModes == {"absolute", "cumulative"}

\* ------------------------------------------------------- rational numbers
Abs(x) == IF x < 0 THEN -x ELSE x
Min(a, b) == IF a < b THEN a ELSE b
Max(a, b) == IF a > b THEN a ELSE b

RECURSIVE GCD(_, _)
GCD(a, b) == IF b = 0 THEN a ELSE GCD(b, a % b)

\* the rational n / d in lowest terms, d # 0
Rat(n, d) ==
  LET g == GCD(Abs(n), Abs(d))
      sg == IF d < 0 THEN -1 ELSE 1
  IN <<sg * (n \div g), sg * (d \div g)>>

Int2R(i) == <<i, 1>>
Undefined == <<0, 0>>
\* JavaScript falsiness of a number or undefined: 0 and undefined
Falsy(x) == x[1] = 0
RAdd(x, y) ==
  IF x[2] = y[2] /\ x[2] = 1 THEN <<x[1] + y[1], 1>>
  ELSE Rat(x[1] * y[2] + y[1] * x[2], x[2] * y[2])
RSub(x, y) ==
  IF x[2] = y[2] /\ x[2] = 1 THEN <<x[1] - y[1], 1>>
  ELSE Rat(x[1] * y[2] - y[1] * x[2], x[2] * y[2])
RMul(x, y) == Rat(x[1] * y[1], x[2] * y[2])
RDiv(x, y) == Rat(x[1] * y[2], x[2] * y[1])
RLt(x, y) == x[1] * y[2] < y[1] * x[2]
RLe(x, y) == x[1] * y[2] <= y[1] * x[2]
RAbs(x) == <<Abs(x[1]), x[2]>>
RMax(x, y) == IF RLt(x, y) THEN y ELSE x
\* Math.floor of a non-negative rational
RFloor(x) == x[1] \div x[2]
\* x || y
Or(x, y) == IF Falsy(x) THEN y ELSE x

\* ------------------------------------------------------ JavaScript arrays
\* Function constructors are evaluated at once: as the explicit sequence or
\* function they denote
AsSeq(f) == f \o <<>>
AsFcn(f) == f @@ f

\* arr[i] for a 0-based index; undefined outside the array
ArrGet(arr, i) == IF i >= 0 /\ i < Len(arr) THEN arr[i + 1] ELSE Undefined

\* arr[i] = v for a 0-based index i >= 0; writing past the end leaves holes
ArrSet(arr, i, v) ==
  AsSeq([k \in 1..Max(Len(arr), i + 1) |->
           IF k = i + 1 THEN v ELSE IF k <= Len(arr) THEN arr[k] ELSE Undefined])

\* delete obj[i] for every i of S
Delete(obj, S) == AsFcn([k \in (DOMAIN obj) \ S |-> obj[k]])
\* obj[i] = v
Put(obj, i, v) ==
  AsFcn([k \in (DOMAIN obj) \cup {i} |-> IF k = i THEN v ELSE obj[k]])
EmptyObj == AsFcn([k \in {} |-> Undefined])

\* ------------------------------------------------------------------ state
VARIABLES
  props,               \* [positionMode, dynamicHeight, continuousHeight], fixed by the parent
  virtualList,         \* the materialized items: <<[index, translateY, itemHeight], ...>>
  copyLen,             \* copyList.length (item k of copyList has index k)
  totalHeight,
  itemHeights,         \* HeightTable, a JavaScript array (holes are Undefined)
  averageHeight,
  measuredIndices,
  currentIndex,
  isCalculating,
  positionCache,       \* object: index -> offset
  accumulatedHeights,
  isScrolling,
  scrollTimeout,       \* TRUE while the 200 ms scroll-stop timer is pending
  heightUpdateTimeout, \* "none", or the kind of the timer the ref holds
  heightTimers,        \* kinds of the pending measureDelay timers, oldest first
  throttleReady,       \* now - lastCall >= 32
  calcTimers,          \* scroll offsets of the pending 16 ms recomputations, oldest first
  sampleTimers,        \* pending 200 ms timers of measureInitialSample
  measureTimers,       \* pending 100 ms timers of measureItemHeights
  elemTimers,          \* indices with a pending 100 ms timer of updateElementHeight
  mountTimer,          \* TRUE while onMounted's 300 ms timer is pending
  inflight,            \* geometry queries executed, callback not yet delivered
  nQueries,            \* geometry queries executed so far
  nEvents,             \* inputs of the host so far
  emitted              \* virtualListHeightChanged events emitted by the last handler

vars == <<props, virtualList, copyLen, totalHeight, itemHeights, averageHeight,
          measuredIndices, currentIndex, isCalculating, positionCache,
          accumulatedHeights, isScrolling, scrollTimeout, heightUpdateTimeout,
          heightTimers, throttleReady, calcTimers, sampleTimers, measureTimers,
          elemTimers, mountTimer, inflight, nQueries, nEvents, emitted>>

\* the component's fields, timers and queries as one record, for the handlers below
Cur ==
  [props |-> props, virtualList |-> virtualList, copyLen |-> copyLen,
   totalHeight |-> totalHeight, itemHeights |-> itemHeights,
   averageHeight |-> averageHeight, measuredIndices |-> measuredIndices,
   currentIndex |-> currentIndex, isCalculating |-> isCalculating,
   positionCache |-> positionCache, accumulatedHeights |-> accumulatedHeights,
   isScrolling |-> isScrolling, scrollTimeout |-> scrollTimeout,
   heightUpdateTimeout |-> heightUpdateTimeout, heightTimers |-> heightTimers,
   throttleReady |-> throttleReady,
   calcTimers |-> calcTimers, sampleTimers |-> sampleTimers,
   measureTimers |-> measureTimers, elemTimers |-> elemTimers,
   mountTimer |-> mountTimer, inflight |-> inflight, nQueries |-> nQueries,
   nEvents |-> nEvents,
   emitted |-> <<>>]

\* the handler's result s becomes the next state
Commit(s) ==
  /\ props' = props
  /\ virtualList' = s.virtualList
  /\ copyLen' = s.copyLen
  /\ totalHeight' = s.totalHeight
  /\ itemHeights' = s.itemHeights
  /\ averageHeight' = s.averageHeight
  /\ measuredIndices' = s.measuredIndices
  /\ currentIndex' = s.currentIndex
  /\ isCalculating' = s.isCalculating
  /\ positionCache' = s.positionCache
  /\ accumulatedHeights' = s.accumulatedHeights
  /\ isScrolling' = s.isScrolling
  /\ scrollTimeout' = s.scrollTimeout
  /\ heightUpdateTimeout' = s.heightUpdateTimeout
  /\ heightTimers' = s.heightTimers
  /\ throttleReady' = s.throttleReady
  /\ calcTimers' = s.calcTimers
  /\ sampleTimers' = s.sampleTimers
  /\ measureTimers' = s.measureTimers
  /\ elemTimers' = s.elemTimers
  /\ mountTimer' = s.mountTimer
  /\ inflight' = s.inflight
  /\ nQueries' = s.nQueries
  /\ nEvents' = s.nEvents
  /\ emitted' = s.emitted

\* ----------------------------------------------------------- Height Model
\* AccLoop pushing the running sum before it adds the item's height: the
\* variant C4 is checked against
RECURSIVE AccLoop_pushFirst(_, _, _, _)
AccLoop_pushFirst(s, i, sum, heights) ==
  IF i >= Len(s.itemHeights)
  THEN [s EXCEPT !.accumulatedHeights = heights, !.totalHeight = sum]
  ELSE LET sum2 == RAdd(sum, Or(ArrGet(s.itemHeights, i), s.averageHeight))
       IN AccLoop_pushFirst(s, i + 1, sum2, Append(heights, sum))

\* the for loop of updateAccumulatedHeights
RECURSIVE AccLoop(_, _, _, _)
AccLoop(s, i, sum, heights) ==
  IF i >= Len(s.itemHeights)
  THEN [s EXCEPT !.accumulatedHeights = heights, !.totalHeight = sum]
  ELSE LET sum2 == RAdd(sum, Or(ArrGet(s.itemHeights, i), s.averageHeight))
       IN AccLoop(s, i + 1, sum2, Append(heights, sum2))

updateAccumulatedHeights(s) == AccLoop(s, 0, Int2R(0), <<>>)

\* BinarySearch with its two comparisons exchanged: the variant C10 is checked
\* against
RECURSIVE BinarySearch_swapped(_, _, _, _)
BinarySearch_swapped(acc, scrollTop, low, high) ==
  IF low > high THEN Max(0, low)
  ELSE LET mid == (low + high) \div 2
       IN IF RLt(scrollTop, acc[mid + 1])
          THEN BinarySearch_swapped(acc, scrollTop, mid + 1, high)
          ELSE IF RLt(acc[mid + 1], scrollTop)
          THEN BinarySearch_swapped(acc, scrollTop, low, mid - 1)
          ELSE mid

\* the while loop of getIndexByScrollTop
RECURSIVE BinarySearch(_, _, _, _)
BinarySearch(acc, scrollTop, low, high) ==
  IF low > high THEN Max(0, low)
  ELSE LET mid == (low + high) \div 2
       IN IF RLt(acc[mid + 1], scrollTop) THEN BinarySearch(acc, scrollTop, mid + 1, high)
          ELSE IF RLt(scrollTop, acc[mid + 1]) THEN BinarySearch(acc, scrollTop, low, mid - 1)
          ELSE mid

getIndexByScrollTop(s, scrollTop) ==
  IF Len(s.accumulatedHeights) = 0
  THEN RFloor(RDiv(scrollTop, s.averageHeight))
  ELSE BinarySearch(s.accumulatedHeights, scrollTop, 0, Len(s.accumulatedHeights) - 1)

\* ------------------------------------------------------ Position Assigner
\* the position in list of the item with this index, 0 when there is none
FindPos(list, idx) ==
  LET hits == {k \in DOMAIN list : list[k].index = idx}
  IN IF hits = {} THEN 0 ELSE CHOOSE k \in hits : \A j \in hits : k <= j

RECURSIVE AbsLoop(_, _)
AbsLoop(s, k) ==
  IF k > Len(s.virtualList) THEN s
  ELSE LET item == s.virtualList[k]
       IN IF item.index = 0
          THEN AbsLoop([s EXCEPT !.virtualList[k].translateY = Int2R(0)], k + 1)
          ELSE IF item.index \in DOMAIN s.positionCache
          THEN AbsLoop([s EXCEPT !.virtualList[k].translateY = s.positionCache[item.index]],
                       k + 1)
          ELSE LET position == Or(ArrGet(s.accumulatedHeights, item.index - 1), Int2R(0))
               IN AbsLoop([s EXCEPT !.virtualList[k].translateY = position,
                                    !.positionCache = Put(@, item.index, position)],
                          k + 1)

updateItemPositionsAbsolute(s) == AbsLoop(s, 1)

\* [...list].sort((a, b) => a.index - b.index), as the positions in sorted order
SortedOrder(list) ==
  LET rank == [k \in DOMAIN list |->
                 1 + Cardinality({j \in DOMAIN list :
                                    \/ list[j].index < list[k].index
                                    \/ (list[j].index = list[k].index /\ j < k)})]
  IN AsSeq([r \in DOMAIN list |-> CHOOSE k \in DOMAIN list : rank[k] = r])

RECURSIVE CumLoop(_, _, _)
CumLoop(s, order, n) ==
  IF n > Len(order) THEN s
  ELSE LET k == order[n]
           item == s.virtualList[k]
           prevIndex == item.index - 1
           prevPos == FindPos(s.virtualList, prevIndex)
       IN IF item.index = 0
          THEN CumLoop([s EXCEPT !.virtualList[k].translateY = Int2R(0)], order, n + 1)
          ELSE IF item.index \in DOMAIN s.positionCache
          THEN CumLoop([s EXCEPT !.virtualList[k].translateY = s.positionCache[item.index]],
                       order, n + 1)
          ELSE LET y == IF prevPos # 0
                        THEN RAdd(s.virtualList[prevPos].translateY,
                                  Or(ArrGet(s.itemHeights, prevIndex), s.averageHeight))
                        ELSE Or(ArrGet(s.accumulatedHeights, prevIndex), Int2R(0))
               IN CumLoop([s EXCEPT !.virtualList[k].translateY = y,
                                    !.positionCache = Put(@, item.index, y)],
                          order, n + 1)

updateItemPositionsCumulative(s) ==
  CumLoop(s, SortedOrder(s.virtualList), 1)

updateItemPositions(s) ==
  IF s.props.positionMode = "absolute"
  THEN updateItemPositionsAbsolute(s)
  ELSE updateItemPositionsCumulative(s)

\* -------------------------------------------------- Measurement Scheduler
\* scheduleHeightMeasurement without its clearTimeout: the variant C14 is
\* checked against
scheduleHeightMeasurement_noClear(s, isInitial) ==
  IF s.isScrolling /\ ~isInitial THEN s
  ELSE LET kind == IF isInitial THEN "initial" ELSE "continuous"
       IN [s EXCEPT !.heightUpdateTimeout = kind,
                    !.heightTimers = Append(s.heightTimers, kind)]

\* the ref heightUpdateTimeout holds the timer set last, so clearTimeout takes
\* the newest pending timer away
scheduleHeightMeasurement(s, isInitial) ==
  IF s.isScrolling /\ ~isInitial THEN s
  ELSE LET kind == IF isInitial THEN "initial" ELSE "continuous"
           kept == IF s.heightUpdateTimeout # "none" /\ s.heightTimers # <<>>
                   THEN SubSeq(s.heightTimers, 1, Len(s.heightTimers) - 1)
                   ELSE s.heightTimers
       IN [s EXCEPT !.heightUpdateTimeout = kind,
                    !.heightTimers = Append(kept, kind)]

\* ------------------------------------------------------ Window Calculator
calculateVirtualList(s, startIndex0, endIndex0) ==
  LET startIndex == Max(0, startIndex0)
      endIndex == Min(s.copyLen, endIndex0)
      oldList == s.virtualList
      oldIndices == {oldList[k].index : k \in DOMAIN oldList}
      count == Max(0, Min(endIndex, s.copyLen) - startIndex)
      newList ==
        AsSeq([k \in 1..count |->
                 LET idx == startIndex + k - 1
                     old == FindPos(oldList, idx)
                 IN [index |-> idx,
                     translateY |-> IF old # 0 THEN oldList[old].translateY
                                    ELSE Int2R(0),
                     itemHeight |-> Or(ArrGet(s.itemHeights, idx), s.averageHeight)]])
      s2 == updateItemPositions([s EXCEPT !.virtualList = newList])
      hasNewItems == \E k \in DOMAIN newList : newList[k].index \notin oldIndices
  IN IF hasNewItems /\ s.props.dynamicHeight /\ ~s.isScrolling
     THEN scheduleHeightMeasurement(s2, FALSE)
     ELSE s2

\* updateVisibleItems with the gate >= instead of >: the variant C8 is checked
\* against
updateVisibleItems_gateGe(s, scrollTop) ==
  IF s.copyLen = 0 THEN s
  ELSE LET estimatedIndex ==
             Max(0, Min(getIndexByScrollTop(s, Int2R(scrollTop)),
                        s.copyLen - VirtualListLength))
       IN IF Abs(estimatedIndex - s.currentIndex) >= PreloadCount \div 3
          THEN calculateVirtualList(
                 [s EXCEPT !.currentIndex = estimatedIndex],
                 Max(0, estimatedIndex - PreloadCount),
                 Min(s.copyLen, estimatedIndex + VirtualListLength + PreloadCount))
          ELSE s

\* updateVisibleItems moving currentIndex half of the way to the estimated
\* index: the variant C9 is checked against
updateVisibleItems_halfWay(s, scrollTop) ==
  IF s.copyLen = 0 THEN s
  ELSE LET estimatedIndex ==
             Max(0, Min(getIndexByScrollTop(s, Int2R(scrollTop)),
                        s.copyLen - VirtualListLength))
           newIndex == (estimatedIndex + s.currentIndex) \div 2
       IN IF Abs(estimatedIndex - s.currentIndex) > PreloadCount \div 3
          THEN calculateVirtualList(
                 [s EXCEPT !.currentIndex = newIndex],
                 Max(0, newIndex - PreloadCount),
                 Min(s.copyLen, newIndex + VirtualListLength + PreloadCount))
          ELSE s

updateVisibleItems(s, scrollTop) ==
  IF s.copyLen = 0 THEN s
  ELSE LET estimatedIndex ==
             Max(0, Min(getIndexByScrollTop(s, Int2R(scrollTop)),
                        s.copyLen - VirtualListLength))
       IN IF Abs(estimatedIndex - s.currentIndex) > PreloadCount \div 3
          THEN calculateVirtualList(
                 [s EXCEPT !.currentIndex = estimatedIndex],
                 Max(0, estimatedIndex - PreloadCount),
                 Min(s.copyLen, estimatedIndex + VirtualListLength + PreloadCount))
          ELSE s

\* ------------------------------------------------------- geometry queries
\* the height the rendering host reports for item i under profile p:
\* 1 a sub-pixel jitter around the nominal height, 2 taller items, 3 a mix of
\* unrendered (height 0), collapsed (height 1/2) and taller items
RectHeight(p, i) ==
  IF p = 1 THEN Int2R(ItemHeight + 1)
  ELSE IF p = 2 THEN Int2R(ItemHeight + 4)
  ELSE IF p = 3 THEN (IF i % 3 = 0 THEN Int2R(0)
                      ELSE IF i % 3 = 1 THEN Rat(1, 2)
                      ELSE Int2R(ItemHeight + 4))
  ELSE Int2R(ItemHeight + 2 * p)

\* selectAll('.virtual-item'): the rendered items, by their data-index
Rendered(s) == AsSeq([k \in DOMAIN s.virtualList |-> s.virtualList[k].index])

\* boundingClientRect: one rect per selected item
Rects(rendered, p) ==
  AsSeq([k \in DOMAIN rendered |->
           [index |-> rendered[k], height |-> RectHeight(p, rendered[k])]])

\* item.itemHeight = h for the materialized item with this index, if any
SetItemHeight(list, idx, h) ==
  LET pos == FindPos(list, idx)
  IN IF pos = 0 THEN list ELSE [list EXCEPT ![pos].itemHeight = h]

\* the forEach of measureInitialSample's callback
RECURSIVE InitialRectLoop(_, _, _, _, _)
InitialRectLoop(s, rects, k, measuredCount, total) ==
  IF k > Len(rects) THEN [s |-> s, measuredCount |-> measuredCount, total |-> total]
  ELSE LET rect == rects[k]
           index == rect.index
           height == RMax(Int2R(1), rect.height)
       IN IF ~Falsy(rect.height)
          THEN InitialRectLoop(
                 [s EXCEPT !.measuredIndices = @ \cup {index},
                           !.itemHeights = ArrSet(@, index, height),
                           !.virtualList = SetItemHeight(@, index, height),
                           !.positionCache = Delete(@, {index})],
                 rects, k + 1, measuredCount + 1, RAdd(total, height))
          ELSE InitialRectLoop(s, rects, k + 1, measuredCount, total)

\* the loop that rewrites the estimate of every unmeasured item
RewriteUnmeasured(s, newAvgHeight) ==
  LET unmeasured == {i \in 0..(Len(s.itemHeights) - 1) : i \notin s.measuredIndices}
  IN [s EXCEPT
        !.itemHeights = AsSeq([k \in DOMAIN @ |-> IF (k - 1) \in unmeasured
                                                   THEN newAvgHeight ELSE @[k]]),
        !.positionCache = Delete(@, unmeasured),
        !.virtualList = AsSeq([k \in DOMAIN @ |->
                                 IF @[k].index \in unmeasured
                                 THEN [@[k] EXCEPT !.itemHeight = newAvgHeight]
                                 ELSE @[k]])]

\* the boundingClientRect callback of measureInitialSample
measureInitialSampleCallback(s, rects) ==
  IF Len(rects) = 0 THEN s
  ELSE LET r == InitialRectLoop(s, rects, 1, 0, Int2R(0))
       IN IF r.measuredCount > 0
          THEN LET newAvgHeight == RDiv(r.total, Int2R(r.measuredCount))
                   s1 == [r.s EXCEPT !.averageHeight = newAvgHeight]
                   s2 == IF RLt(Rat(ItemHeight, 10),
                                RAbs(RSub(newAvgHeight, Int2R(ItemHeight))))
                         THEN RewriteUnmeasured(s1, newAvgHeight)
                         ELSE s1
               IN updateItemPositions(updateAccumulatedHeights(s2))
          ELSE r.s

\* !itemHeights[index] || Math.abs(itemHeights[index] - height) > 1
MateriallyChanged(old, height) ==
  IF Falsy(old) THEN TRUE ELSE RLt(Int2R(1), RAbs(RSub(old, height)))

\* the forEach of measureItemHeights' callback
RECURSIVE ContinuousRectLoop(_, _, _, _, _, _)
ContinuousRectLoop(s, rects, k, measuredCount, total, heightsChanged) ==
  IF k > Len(rects)
  THEN [s |-> s, measuredCount |-> measuredCount, total |-> total,
        heightsChanged |-> heightsChanged]
  ELSE LET rect == rects[k]
           index == rect.index
           height == RMax(Int2R(1), rect.height)
           old == ArrGet(s.itemHeights, index)
           s1 == [s EXCEPT !.measuredIndices = @ \cup {index}]
       IN IF ~Falsy(rect.height)
          THEN IF MateriallyChanged(old, height)
               THEN ContinuousRectLoop(
                      [s1 EXCEPT !.itemHeights = ArrSet(@, index, height),
                                 !.virtualList = SetItemHeight(@, index, height),
                                 !.positionCache = Delete(@, {index})],
                      rects, k + 1, measuredCount + 1, RAdd(total, height), TRUE)
               ELSE ContinuousRectLoop(s1, rects, k + 1, measuredCount + 1,
                                       RAdd(total, height), heightsChanged)
          ELSE ContinuousRectLoop(s, rects, k + 1, measuredCount, total, heightsChanged)

\* the boundingClientRect callback of measureItemHeights
measureItemHeightsCallback(s, rects) ==
  IF Len(rects) = 0 THEN s
  ELSE LET r == ContinuousRectLoop(s, rects, 1, 0, Int2R(0), FALSE)
       IN IF r.heightsChanged /\ r.measuredCount > 0
          THEN LET newAverage == RDiv(r.total, Int2R(r.measuredCount))
                   s1 == IF RLt(Int2R(0), newAverage)
                         THEN [r.s EXCEPT
                                 !.averageHeight = RAdd(RMul(@, Rat(7, 10)),
                                                        RMul(newAverage, Rat(3, 10)))]
                         ELSE r.s
               IN updateItemPositions(updateAccumulatedHeights(s1))
          ELSE r.s

\* updateElementHeight's callback deleting the cached position of the one index
\* only, as the batched callbacks do: the variant C6 is checked against
updateElementHeightCallback_oneKey(s, rects, index) ==
  LET hit == {k \in DOMAIN rects : rects[k].index = index}
      targetRect == rects[CHOOSE k \in hit : \A j \in hit : k <= j]
      height == RMax(Int2R(1), targetRect.height)
      oldHeight == Or(ArrGet(s.itemHeights, index), s.averageHeight)
  IN IF Len(rects) = 0 THEN s
     ELSE IF hit = {} \/ Falsy(targetRect.height) THEN s
     ELSE IF RLe(RAbs(RSub(oldHeight, height)), Int2R(1)) THEN s
     ELSE LET s1 == [s EXCEPT
                       !.itemHeights = ArrSet(@, index, height),
                       !.virtualList = SetItemHeight(@, index, height),
                       !.positionCache = Delete(@, {index})]
              s2 == updateItemPositions(updateAccumulatedHeights(s1))
          IN [s2 EXCEPT !.emitted = Append(@, [index |-> index, height |-> height,
                                               oldHeight |-> oldHeight])]

\* the boundingClientRect callback of updateElementHeight(index)
updateElementHeightCallback(s, rects, index) ==
  LET hit == {k \in DOMAIN rects : rects[k].index = index}
      targetRect == rects[CHOOSE k \in hit : \A j \in hit : k <= j]
      height == RMax(Int2R(1), targetRect.height)
      oldHeight == Or(ArrGet(s.itemHeights, index), s.averageHeight)
  IN IF Len(rects) = 0 THEN s
     ELSE IF hit = {} \/ Falsy(targetRect.height) THEN s
     ELSE IF RLe(RAbs(RSub(oldHeight, height)), Int2R(1)) THEN s
     ELSE LET s1 == [s EXCEPT
                       !.itemHeights = ArrSet(@, index, height),
                       !.virtualList = SetItemHeight(@, index, height),
                       !.positionCache = Delete(@, index..(s.copyLen - 1))]
              s2 == updateItemPositions(updateAccumulatedHeights(s1))
          IN [s2 EXCEPT !.emitted = Append(@, [index |-> index, height |-> height,
                                               oldHeight |-> oldHeight])]

\* the timer body of measureInitialSample / measureItemHeights / updateElementHeight:
\* execute one batched query; its callback runs later, with the heights the host
\* reports for the items selected now.  A query that finds no rendered item
\* calls back with no rects, which every callback ignores.
ExecQuery(s, kind, target) ==
  IF Len(s.virtualList) = 0 THEN s
  ELSE [s EXCEPT !.inflight = @ \cup {[kind |-> kind, target |-> target,
                                       rendered |-> Rendered(s)]},
                 !.nQueries = @ + 1]

measureInitialSample(s) ==
  IF ~s.props.dynamicHeight \/ Len(s.virtualList) = 0 THEN s
  ELSE [s EXCEPT !.sampleTimers = @ + 1]

measureItemHeights(s) ==
  IF Len(s.virtualList) = 0 \/ ~s.props.dynamicHeight THEN s
  ELSE [s EXCEPT !.measureTimers = @ + 1]

\* -------------------------------------------------------- List Controller
initItemHeights(s) ==
  updateAccumulatedHeights(
    [s EXCEPT !.itemHeights = AsSeq([k \in 1..s.copyLen |-> Int2R(ItemHeight)]),
              !.positionCache = EmptyObj])

\* the watcher of props.list, for a new list of length n; the nextTick callback
\* of initItemHeights runs when the watcher has returned
watchList(s, n) ==
  IF n = 0
  THEN [s EXCEPT !.virtualList = <<>>, !.copyLen = 0, !.totalHeight = Int2R(0),
                 !.measuredIndices = {}, !.positionCache = EmptyObj,
                 !.accumulatedHeights = <<>>, !.averageHeight = Int2R(ItemHeight)]
  ELSE LET s1 == [s EXCEPT !.copyLen = n, !.measuredIndices = {},
                           !.positionCache = EmptyObj,
                           !.averageHeight = Int2R(ItemHeight)]
           s2 == calculateVirtualList(initItemHeights(s1), 0,
                                      Min(n, VirtualListLength + PreloadCount))
       IN scheduleHeightMeasurement(s2, TRUE)

\* handleScrollToLower preloading twice below the window: the variant C1 is
\* checked against
handleScrollToLower_twice(s) ==
  LET newIndex == Min(s.copyLen - VirtualListLength,
                      s.currentIndex + VirtualListLength \div 3)
  IN IF newIndex > s.currentIndex
     THEN calculateVirtualList(
            [s EXCEPT !.currentIndex = newIndex],
            Max(0, newIndex - PreloadCount),
            Min(s.copyLen, newIndex + VirtualListLength + 2 * PreloadCount))
     ELSE s

handleScrollToLower(s) ==
  LET newIndex == Min(s.copyLen - VirtualListLength,
                      s.currentIndex + VirtualListLength \div 3)
  IN IF newIndex > s.currentIndex
     THEN calculateVirtualList(
            [s EXCEPT !.currentIndex = newIndex],
            Max(0, newIndex - PreloadCount),
            Min(s.copyLen, newIndex + VirtualListLength + PreloadCount))
     ELSE s

handleScrollToUpper(s) ==
  LET newIndex == Max(0, s.currentIndex - VirtualListLength \div 3)
  IN IF newIndex < s.currentIndex
     THEN calculateVirtualList(
            [s EXCEPT !.currentIndex = newIndex],
            Max(0, newIndex - PreloadCount),
            Min(s.copyLen, newIndex + VirtualListLength + PreloadCount))
     ELSE s

\* the scroll handler without its test of isCalculating: the variant C13 is
\* checked against
handleScrollThrottled_unguarded(s, scrollTop) ==
  IF ~s.throttleReady THEN s
  ELSE [s EXCEPT !.throttleReady = FALSE, !.isScrolling = TRUE,
                 !.scrollTimeout = TRUE, !.isCalculating = TRUE,
                 !.calcTimers = Append(@, scrollTop)]

\* throttle(fn, 32) around the scroll handler: a call less than 32 ms after the
\* last accepted one returns at once
handleScrollThrottled(s, scrollTop) ==
  IF ~s.throttleReady THEN s
  ELSE LET s1 == [s EXCEPT !.throttleReady = FALSE, !.isScrolling = TRUE,
                           !.scrollTimeout = TRUE]
       IN IF ~s1.isCalculating
          THEN [s1 EXCEPT !.isCalculating = TRUE, !.calcTimers = Append(@, scrollTop)]
          ELSE s1

\* the oldest 16 ms timer set by the scroll handler
calcTimerBody(s) ==
  [updateVisibleItems(s, Head(s.calcTimers)) EXCEPT
     !.isCalculating = FALSE, !.calcTimers = Tail(s.calcTimers)]

\* the 200 ms timer set by the scroll handler
scrollTimeoutBody(s) ==
  LET s1 == [s EXCEPT !.isScrolling = FALSE, !.scrollTimeout = FALSE]
  IN IF s.props.continuousHeight THEN scheduleHeightMeasurement(s1, FALSE) ELSE s1

\* the oldest measureDelay timer set by scheduleHeightMeasurement; its callback
\* ends by setting the ref to null
heightUpdateTimeoutBody(s) ==
  LET s1 == [s EXCEPT !.heightTimers = Tail(s.heightTimers)]
  IN [(IF Head(s.heightTimers) = "initial"
       THEN measureInitialSample(s1)
       ELSE measureItemHeights(s1)) EXCEPT !.heightUpdateTimeout = "none"]

refreshHeight(s) ==
  scheduleHeightMeasurement(
    [s EXCEPT !.measuredIndices = {}, !.positionCache = EmptyObj], TRUE)

\* updateElementHeight without the look-up of the index in virtualList: the
\* variant C5 is checked against
updateElementHeight_unchecked(s, index) ==
  IF index < 0 \/ index >= s.copyLen THEN s
  ELSE [s EXCEPT !.elemTimers = @ \cup {index}]

\* updateElementHeight(index) up to its nextTick, which sets the 100 ms timer
updateElementHeight(s, index) ==
  IF index < 0 \/ index >= s.copyLen THEN s
  ELSE IF FindPos(s.virtualList, index) = 0 THEN s
  ELSE [s EXCEPT !.elemTimers = @ \cup {index}]

\* the callback of query q, the host reporting the heights of profile p
queryCallback(s, q, p) ==
  LET s1 == [s EXCEPT !.inflight = @ \ {q}]
      rects == Rects(q.rendered, p)
  IN IF q.kind = "initial" THEN measureInitialSampleCallback(s1, rects)
     ELSE IF q.kind = "continuous" THEN measureItemHeightsCallback(s1, rects)
     ELSE updateElementHeightCallback(s1, rects, q.target)

\* ---------------------------------------------------------------- actions
\* indices passed to updateElementHeight: below the list, inside it, beyond it
ElemIndices == {-1, 1, LongLen}

\* measurements under way
Outstanding(s) ==
  s.sampleTimers + s.measureTimers + Cardinality(s.elemTimers) + Cardinality(s.inflight)

\* the runs explored: a step that would start one measurement more than
\* MaxOutstanding, or one query more than MaxQueries, is left out
Bounded(s) == Outstanding(s) <= MaxOutstanding /\ s.nQueries <= MaxQueries

\* one more input of the host; the runs explored have at most MaxEvents
Event(s) == [s EXCEPT !.nEvents = @ + 1]

\* the refs as the setup function declares them, before the watcher has run;
\* dynamicHeight and continuousHeight have their default, true
Setup ==
  [props |-> [positionMode |-> "cumulative", dynamicHeight |-> TRUE,
              continuousHeight |-> TRUE],
   virtualList |-> <<>>, copyLen |-> 0, totalHeight |-> Int2R(0),
   itemHeights |-> <<>>, averageHeight |-> Int2R(ItemHeight),
   measuredIndices |-> {}, currentIndex |-> 0, isCalculating |-> FALSE,
   positionCache |-> EmptyObj, accumulatedHeights |-> <<>>,
   isScrolling |-> FALSE, scrollTimeout |-> FALSE,
   heightUpdateTimeout |-> "none", heightTimers |-> <<>>,
   throttleReady |-> TRUE, calcTimers |-> <<>>,
   sampleTimers |-> 0, measureTimers |-> 0, elemTimers |-> {},
   mountTimer |-> TRUE, inflight |-> {}, nQueries |-> 0, nEvents |-> 0,
   emitted |-> <<>>]

\* the state s of a given configuration
InState(s) ==
  /\ props = s.props
  /\ virtualList = s.virtualList
  /\ copyLen = s.copyLen
  /\ totalHeight = s.totalHeight
  /\ itemHeights = s.itemHeights
  /\ averageHeight = s.averageHeight
  /\ measuredIndices = s.measuredIndices
  /\ currentIndex = s.currentIndex
  /\ isCalculating = s.isCalculating
  /\ positionCache = s.positionCache
  /\ accumulatedHeights = s.accumulatedHeights
  /\ isScrolling = s.isScrolling
  /\ scrollTimeout = s.scrollTimeout
  /\ heightUpdateTimeout = s.heightUpdateTimeout
  /\ heightTimers = s.heightTimers
  /\ throttleReady = s.throttleReady
  /\ calcTimers = s.calcTimers
  /\ sampleTimers = s.sampleTimers
  /\ measureTimers = s.measureTimers
  /\ elemTimers = s.elemTimers
  /\ mountTimer = s.mountTimer
  /\ inflight = s.inflight
  /\ nQueries = s.nQueries
  /\ nEvents = s.nEvents
  /\ emitted = s.emitted

\* the component once set up, in either position mode: the watcher, being
\* immediate, has run on the list the component was created with, and onMounted
\* has started its timer
Init ==
  \E n \in ListLens, mode \in PositionModes :
    InState(watchList([Setup EXCEPT !.props.positionMode = mode], n))

WatchList ==
  /\ nEvents < MaxEvents
  /\ \E n \in ListLens : Commit(Event(watchList(Cur, n)))

Scroll ==
  /\ nEvents < MaxEvents
  /\ \E scrollTop \in ScrollTops :
       Commit(IF throttleReady THEN Event(handleScrollThrottled(Cur, scrollTop))
              ELSE handleScrollThrottled(Cur, scrollTop))

ThrottleElapse ==
  /\ ~throttleReady
  /\ Commit([Cur EXCEPT !.throttleReady = TRUE])

CalcTimerFire ==
  /\ calcTimers # <<>>
  /\ Commit(calcTimerBody(Cur))

ScrollTimeoutFire ==
  /\ scrollTimeout
  /\ Commit(scrollTimeoutBody(Cur))

HeightUpdateTimeoutFire ==
  /\ heightTimers # <<>>
  /\ LET s == heightUpdateTimeoutBody(Cur)
     IN Bounded(s) /\ Commit(s)

SampleTimerFire ==
  /\ sampleTimers > 0
  /\ LET s == ExecQuery([Cur EXCEPT !.sampleTimers = @ - 1], "initial", -1)
     IN Bounded(s) /\ Commit(s)

MeasureTimerFire ==
  /\ measureTimers > 0
  /\ LET s == ExecQuery([Cur EXCEPT !.measureTimers = @ - 1], "continuous", -1)
     IN Bounded(s) /\ Commit(s)

ElemTimerFire ==
  \E index \in elemTimers :
    LET s == ExecQuery([Cur EXCEPT !.elemTimers = @ \ {index}], "element", index)
    IN Bounded(s) /\ Commit(s)

QueryCallback ==
  \E q \in inflight, p \in Profiles :
    Commit(queryCallback(Cur, q, p))

MountTimerFire ==
  /\ mountTimer
  /\ Commit(scheduleHeightMeasurement([Cur EXCEPT !.mountTimer = FALSE], TRUE))

RefreshHeight ==
  /\ nEvents < MaxEvents
  /\ Commit(Event(refreshHeight(Cur)))

UpdateElementHeight ==
  /\ nEvents < MaxEvents
  /\ \E index \in ElemIndices :
       LET s == Event(updateElementHeight(Cur, index))
       IN Bounded(s) /\ Commit(s)

ScrollToLower ==
  /\ nEvents < MaxEvents
  /\ Commit(Event(handleScrollToLower(Cur)))

ScrollToUpper ==
  /\ nEvents < MaxEvents
  /\ Commit(Event(handleScrollToUpper(Cur)))

Next ==
  \/ WatchList
  \/ Scroll
  \/ ThrottleElapse
  \/ CalcTimerFire
  \/ ScrollTimeoutFire
  \/ HeightUpdateTimeoutFire
  \/ SampleTimerFire
  \/ MeasureTimerFire
  \/ ElemTimerFire
  \/ QueryCallback
  \/ MountTimerFire
  \/ RefreshHeight
  \/ UpdateElementHeight
  \/ ScrollToLower
  \/ ScrollToUpper

Spec == Init /\ [][Next]_vars

\* ------------------------------------------------------------ properties
\* the source indices of the materialized items, in the order of virtualList
WindowIndices(list) == [k \in DOMAIN list |-> list[k].index]

\* the run of indices [lo, hi)
Run(lo, hi) == [k \in 1..Max(0, hi - lo) |-> lo + k - 1]

\* list is a contiguous run [s, e) of source indices with 0 <= s <= e <= n
InBoundsRun(list, n) ==
  \/ list = <<>>
  \/ /\ WindowIndices(list) = Run(list[1].index, list[1].index + Len(list))
     /\ list[1].index >= 0
     /\ list[1].index + Len(list) <= n

\* heightOf(i): the entry of the height table, the average where it has none
HeightOf(heights, avg, i) == Or(ArrGet(heights, i), avg)

\* the sum of heightOf(0), ..., heightOf(n - 1)
RECURSIVE SumHeights(_, _, _)
SumHeights(heights, avg, n) ==
  IF n = 0 THEN Int2R(0)
  ELSE RAdd(SumHeights(heights, avg, n - 1), HeightOf(heights, avg, n - 1))

\* s.accumulatedHeights holds the prefix sums of the height table of s, and
\* s.totalHeight their last
CumulativeRebuilt(s) ==
  /\ Len(s.accumulatedHeights) = Len(s.itemHeights)
  /\ \A i \in DOMAIN s.accumulatedHeights :
       s.accumulatedHeights[i] = SumHeights(s.itemHeights, s.averageHeight, i)
  /\ s.totalHeight = SumHeights(s.itemHeights, s.averageHeight, Len(s.itemHeights))

\* C1 as stated: whenever the source list is non-empty, of length N, the
\* materialized window is a contiguous in-bounds run of source indices and
\* holds exactly min(N, virtualListLength + 2 * preloadCount) items.
C1_WindowSizeExact ==
  copyLen > 0 =>
    /\ InBoundsRun(virtualList, copyLen)
    /\ Len(virtualList) = Min(copyLen, VirtualListLength + 2 * PreloadCount)

\* C1, amended: whenever the source list is non-empty, of length N, the
\* materialized window is a contiguous run [s, e) of source indices with
\* 0 <= s <= e <= N that holds at most min(N, virtualListLength + 2 *
\* preloadCount) items.
C1_WindowBounded ==
  copyLen > 0 =>
    /\ InBoundsRun(virtualList, copyLen)
    /\ Len(virtualList) <= Min(copyLen, VirtualListLength + 2 * PreloadCount)

\* a window of the long list that a scroll has recomputed to its full size
C1_FullWindow ==
  /\ copyLen = LongLen
  /\ Len(virtualList) = VirtualListLength + 2 * PreloadCount

\* C2 as stated: while the source list is empty, the materialized window is
\* empty, totalHeight is 0, and the measured set, the position cache and the
\* cumulative heights are empty, whatever timer fires or callback arrives.
C2_EmptyListStaysCleared ==
  copyLen = 0 =>
    /\ virtualList = <<>>
    /\ totalHeight = Int2R(0)
    /\ measuredIndices = {}
    /\ positionCache = EmptyObj
    /\ accumulatedHeights = <<>>

\* the indices for which the rects of query q report, under profile p, a valid
\* height that differs from the entry of the height table by more than 1
MateriallyChangedIn(q, p) ==
  {i \in {q.rendered[k] : k \in DOMAIN q.rendered} :
     /\ ~Falsy(RectHeight(p, i))
     /\ ~Falsy(ArrGet(itemHeights, i))
     /\ RLt(Int2R(1), RAbs(RSub(ArrGet(itemHeights, i),
                                RMax(Int2R(1), RectHeight(p, i)))))}

\* C3 as stated: when the callback of a batched measurement (initial or
\* continuous) has processed a height h for index i with |h - HeightTable[i]|
\* > 1, HeightTable[i] is max(1, h) and every position still cached for an
\* index j > i is the offset the current heights give: the sum of the heights
\* of the items before j.
C3_BatchInvalidatesStale ==
  \A q \in inflight :
    q.kind \in {"initial", "continuous"} =>
      \A p \in Profiles :
        LET post == queryCallback(Cur, q, p)
            changed == MateriallyChangedIn(q, p)
        IN /\ \A i \in changed :
                ArrGet(post.itemHeights, i) = RMax(Int2R(1), RectHeight(p, i))
           /\ \A j \in DOMAIN post.positionCache :
                (\E i \in changed : i < j) =>
                  post.positionCache[j] =
                    SumHeights(post.itemHeights, post.averageHeight, j)

\* C4: from every reachable height table, updateAccumulatedHeights leaves
\* accumulatedHeights non-decreasing, with accumulatedHeights[i] the sum of the
\* heights of items 0..i, and totalHeight the last of them, the sum of the
\* whole table.
C4_CumulativeHeights ==
  LET r == updateAccumulatedHeights(Cur)
      acc == r.accumulatedHeights
  IN /\ CumulativeRebuilt(r)
     /\ \A i \in DOMAIN acc : i > 1 => RLe(acc[i - 1], acc[i])
     /\ r.totalHeight = IF acc = <<>> THEN Int2R(0) ELSE acc[Len(acc)]

\* a height table with measured heights, for which the cumulative heights have
\* been rebuilt
C4_RebuiltAfterMeasurement ==
  /\ measuredIndices # {}
  /\ accumulatedHeights # <<>>
  /\ totalHeight # Int2R(Len(itemHeights) * ItemHeight)
  /\ CumulativeRebuilt(Cur)

\* C5: updateElementHeight(index) with an index outside [0, N), or one that no
\* materialized item has, changes no field, sets no timer, issues no geometry
\* query and emits nothing.
C5_UpdateElementHeightNoOp ==
  \A index \in -1..LongLen :
    (\/ index < 0
     \/ index >= copyLen
     \/ index \notin {virtualList[k].index : k \in DOMAIN virtualList})
      => updateElementHeight(Cur, index) = Cur

\* the long list with a window that has moved past item 1: the index is in
\* range and not materialized
C5_IndexNotMaterialized ==
  /\ copyLen = LongLen
  /\ virtualList # <<>>
  /\ virtualList[1].index > 1
  /\ elemTimers = {}

\* the offset the position assigner gives item j of the window of s when it has
\* no cached position for it
FreshOffset(s, j) ==
  LET prev == FindPos(s.virtualList, j - 1)
  IN IF s.props.positionMode = "cumulative" /\ prev # 0
     THEN RAdd(s.virtualList[prev].translateY,
               HeightOf(s.itemHeights, s.averageHeight, j - 1))
     ELSE Or(ArrGet(s.accumulatedHeights, j - 1), Int2R(0))

\* C6: when the query of updateElementHeight(index) calls back with a valid
\* height h for the index (new = max(1, h), old = the height table's entry or
\* the average): if |old - new| > 1, the table's entry becomes new, every
\* position cached for an index >= index is one the recomputation has just
\* assigned, cumulative heights and totalHeight are rebuilt, and exactly one
\* notification {index, new, old} is emitted; otherwise nothing changes and
\* nothing is emitted.
C6_ElementCallback ==
  \A q \in inflight :
    (q.kind = "element" /\ \E k \in DOMAIN q.rendered : q.rendered[k] = q.target) =>
      \A p \in Profiles :
        LET index == q.target
            pre == [Cur EXCEPT !.inflight = @ \ {q}]
            post == queryCallback(Cur, q, p)
            old == HeightOf(itemHeights, averageHeight, index)
            new == RMax(Int2R(1), RectHeight(p, index))
        IN ~Falsy(RectHeight(p, index)) =>
             IF RLt(Int2R(1), RAbs(RSub(old, new)))
             THEN /\ ArrGet(post.itemHeights, index) = new
                  /\ \A j \in DOMAIN post.positionCache :
                       j >= index =>
                         /\ FindPos(post.virtualList, j) # 0
                         /\ post.positionCache[j] = FreshOffset(post, j)
                         /\ post.virtualList[FindPos(post.virtualList, j)].translateY
                              = post.positionCache[j]
                  /\ CumulativeRebuilt(post)
                  /\ post.emitted = <<[index |-> index, height |-> new,
                                       oldHeight |-> old]>>
                  /\ post.measuredIndices = pre.measuredIndices
                  /\ post.averageHeight = pre.averageHeight
                  /\ WindowIndices(post.virtualList) = WindowIndices(pre.virtualList)
             ELSE post = pre

\* the handler that ran last has emitted the notification of item 1
C6_Notified ==
  /\ Len(emitted) = 1
  /\ emitted[1].index = 1
  /\ ArrGet(itemHeights, 1) = emitted[1].height

\* the sum of the valid heights of q's rects under profile p, clamped as the
\* callback clamps them
RECURSIVE BatchTotal(_, _, _)
BatchTotal(q, p, k) ==
  IF k = 0 THEN Int2R(0)
  ELSE LET h == RectHeight(p, q.rendered[k])
       IN IF Falsy(h) THEN BatchTotal(q, p, k - 1)
          ELSE RAdd(BatchTotal(q, p, k - 1), RMax(Int2R(1), h))

\* C7 as stated: when the callback of an initial sample has a batch with valid
\* heights, the average becomes the mean of the batch, every measured index
\* holds its measured height, and every unmeasured index whose height differed
\* from the new average by more than 10% holds the new average.
C7_InitialSampleRewrites ==
  \A q \in inflight :
    q.kind = "initial" =>
      \A p \in Profiles :
        LET post == queryCallback(Cur, q, p)
            valid == {k \in DOMAIN q.rendered : ~Falsy(RectHeight(p, q.rendered[k]))}
            mean == RDiv(BatchTotal(q, p, Len(q.rendered)),
                         Int2R(Cardinality(valid)))
        IN valid # {} =>
             /\ post.averageHeight = mean
             /\ \A k \in valid :
                  ArrGet(post.itemHeights, q.rendered[k])
                    = RMax(Int2R(1), RectHeight(p, q.rendered[k]))
             /\ \A i \in 0..(Len(itemHeights) - 1) :
                  (/\ i \notin post.measuredIndices
                   /\ RLt(RMul(mean, Rat(1, 10)),
                          RAbs(RSub(HeightOf(itemHeights, averageHeight, i), mean))))
                    => ArrGet(post.itemHeights, i) = mean

\* C8: the 16 ms recomputation of a scroll event with offset o, on a non-empty
\* list of length N, with estimated = getIndexByScrollTop(o) clamped to
\* [0, max(0, N - virtualListLength)]: if |estimated - currentIndex| >
\* floor(preloadCount / 3), currentIndex becomes estimated and the window
\* [max(0, estimated - preloadCount), min(N, estimated + virtualListLength +
\* preloadCount)); otherwise currentIndex and the window stay as they are.
C8_HysteresisGate ==
  [][(calcTimers # <<>> /\ calcTimers' = Tail(calcTimers) /\ copyLen > 0) =>
       LET located == getIndexByScrollTop(Cur, Int2R(Head(calcTimers)))
           estimated == Min(Max(0, located), Max(0, copyLen - VirtualListLength))
       IN IF Abs(estimated - currentIndex) > PreloadCount \div 3
          THEN /\ currentIndex' = estimated
               /\ WindowIndices(virtualList') =
                    Run(Max(0, estimated - PreloadCount),
                        Min(copyLen, estimated + VirtualListLength + PreloadCount))
          ELSE /\ currentIndex' = currentIndex
               /\ virtualList' = virtualList]_vars

\* a recomputation has moved the window of the long list to its end, the
\* estimated index clamped to N - virtualListLength
C8_WindowAtEnd ==
  /\ copyLen = LongLen
  /\ calcTimers = <<>>
  /\ currentIndex = LongLen - VirtualListLength
  /\ WindowIndices(virtualList) = Run(LongLen - VirtualListLength - PreloadCount, LongLen)

\* C9: from every reachable state, updateVisibleItems run twice with the same
\* scroll offset leaves, after the second run, the window, the translateY of
\* each of its items and currentIndex as they were after the first.
C9_RecomputeIdempotent ==
  \A scrollTop \in ScrollTops :
    LET s1 == updateVisibleItems(Cur, scrollTop)
        s2 == updateVisibleItems(s1, scrollTop)
    IN /\ s2.virtualList = s1.virtualList
       /\ s2.currentIndex = s1.currentIndex

\* a recomputation has moved the window, and a second one with an offset that
\* locates the same index is pending
C9_SecondRunPending ==
  /\ copyLen = LongLen
  /\ currentIndex > 1
  /\ calcTimers # <<>>
  /\ getIndexByScrollTop(Cur, Int2R(Head(calcTimers))) = currentIndex
  /\ updateVisibleItems(Cur, 0).virtualList # virtualList

\* offsets probed by C10: k * ItemHeight / ProbeDen for k in 0..MaxProbe
ProbeDen == 2
MaxProbe == 24

\* C10: in every reachable state, for all probed offsets s1 < s2,
\* getIndexByScrollTop(s1) <= getIndexByScrollTop(s2), on the binary search
\* over accumulatedHeights and on the floor(offset / averageHeight) fallback.
C10_LocateMonotonic ==
  LET located == AsFcn([k \in 0..MaxProbe |->
                          getIndexByScrollTop(Cur, Rat(k * ItemHeight, ProbeDen))])
  IN \A a, b \in 0..MaxProbe : a < b => located[a] <= located[b]

\* cumulative heights rebuilt from measured heights, over which the binary
\* search locates two offsets at different indices
C10_SearchOverMeasured ==
  /\ measuredIndices # {}
  /\ accumulatedHeights # <<>>
  /\ accumulatedHeights[1] # Int2R(ItemHeight)
  /\ getIndexByScrollTop(Cur, Int2R(ItemHeight))
       < getIndexByScrollTop(Cur, Int2R(3 * ItemHeight))

\* ----------------------------------------------------- timers that do fire
\* a step that runs the oldest pending 16 ms recomputation: CalcTimerFire is the
\* one action that takes the head of calcTimers away
CalcTimerFired == calcTimers # <<>> /\ calcTimers' = Tail(calcTimers)

\* a step that delivers the callback of a query: QueryCallback is the one action
\* that takes a query out of inflight
QueryDelivered == \E q \in inflight : inflight' = inflight \ {q}

\* a timer that is set fires after its delay and a geometry query that was
\* executed gets its callback; the host's inputs are under no obligation
Fairness ==
  /\ WF_vars(ThrottleElapse)
  /\ WF_calcTimers(CalcTimerFired)
  /\ WF_vars(ScrollTimeoutFire)
  /\ WF_vars(HeightUpdateTimeoutFire)
  /\ WF_vars(SampleTimerFire)
  /\ WF_vars(MeasureTimerFire)
  /\ WF_vars(ElemTimerFire)
  /\ WF_inflight(QueryDelivered)
  /\ WF_vars(MountTimerFire)

\* the runs explored under fairness have at most MaxFairEvents inputs of the host
MaxFairEvents == 1

FairNext ==
  \/ WatchList /\ nEvents' <= MaxFairEvents
  \/ Scroll /\ nEvents' <= MaxFairEvents
  \/ ThrottleElapse
  \/ CalcTimerFire
  \/ ScrollTimeoutFire
  \/ HeightUpdateTimeoutFire
  \/ SampleTimerFire
  \/ MeasureTimerFire
  \/ ElemTimerFire
  \/ QueryCallback
  \/ MountTimerFire
  \/ RefreshHeight /\ nEvents' <= MaxFairEvents
  \/ UpdateElementHeight /\ nEvents' <= MaxFairEvents
  \/ ScrollToLower /\ nEvents' <= MaxFairEvents
  \/ ScrollToUpper /\ nEvents' <= MaxFairEvents

FairSpec == Init /\ [][FairNext]_vars /\ Fairness

\* C11: with dynamicHeight enabled and timers that fire, whenever the initial
\* sample pass is scheduled for a non-empty list whose height table still holds
\* only the defaults the replacement gave it, the batched geometry query of
\* measureInitialSample is eventually executed, whatever scroll notifications,
\* boundary notifications and other measurement requests come in between
\* (unless the list has become empty, or the run has used up the MaxQueries
\* queries that are explored).
C11_InitialSampleFires ==
  (/\ props.dynamicHeight
   /\ copyLen > 0
   /\ heightUpdateTimeout = "initial"
   /\ measuredIndices = {}
   /\ \A i \in 0..(copyLen - 1) : ArrGet(itemHeights, i) = Int2R(ItemHeight))
    ~> \/ \E q \in inflight : q.kind = "initial"
       \/ copyLen = 0
       \/ nQueries >= MaxQueries

\* C12: of the scroll notifications that arrive within one throttle interval,
\* the most recent decides the window: when a recomputation is pending for the
\* offset of a notification and a notification with another offset arrives
\* before the 32 ms of the throttle have passed, the pending recomputation is
\* the one of the later offset.
C12_LastOffsetWins ==
  \A later \in ScrollTops :
    (~throttleReady /\ calcTimers # <<>> /\ Head(calcTimers) # later) =>
      handleScrollThrottled(Cur, later).calcTimers = <<later>>

\* C13: at most one scroll-triggered recomputation is pending, and one is
\* pending exactly while isCalculating is true; a scroll notification that the
\* throttle accepts while isCalculating is true sets no further recomputation
\* and its offset is kept nowhere; running the pending recomputation sets
\* isCalculating back to false and leaves none pending.
C13_SingleRecomputation ==
  /\ Len(calcTimers) <= 1
  /\ isCalculating <=> calcTimers # <<>>
  /\ \A scrollTop \in ScrollTops :
       (throttleReady /\ isCalculating) =>
         LET s == handleScrollThrottled(Cur, scrollTop)
         IN s.calcTimers = calcTimers /\ s.isCalculating
  /\ calcTimers # <<>> =>
       LET s == calcTimerBody(Cur)
       IN ~s.isCalculating /\ s.calcTimers = <<>>

\* a recomputation is pending, the throttle interval of the notification that
\* set it has passed, and the host may send another notification with an
\* offset of its own
C13_AcceptedWhileCalculating ==
  /\ isCalculating
  /\ throttleReady
  /\ nEvents < MaxEvents
  /\ \E scrollTop \in ScrollTops : calcTimers = <<scrollTop>> /\ scrollTop # 0

\* C14: at most one measureDelay timer is pending, the one the ref
\* heightUpdateTimeout holds; every call of scheduleHeightMeasurement that is
\* not refused for scrolling leaves exactly one pending, of the kind asked for,
\* the timer that was pending being cancelled: however many requests come
\* before the timer fires, one timer fires.
C14_SingleMeasurementTimer ==
  /\ Len(heightTimers) <= 1
  /\ heightTimers = IF heightUpdateTimeout = "none" THEN <<>>
                    ELSE <<heightUpdateTimeout>>
  /\ \A isInitial \in BOOLEAN :
       ~(isScrolling /\ ~isInitial) =>
         scheduleHeightMeasurement(Cur, isInitial).heightTimers
           = <<IF isInitial THEN "initial" ELSE "continuous">>

\* the timer of the initial pass of the list was pending when a request for a
\* continuous pass came: no pass has run, and the timer pending is the
\* continuous one
C14_RequestWhilePending ==
  /\ copyLen = LongLen
  /\ nEvents = 1
  /\ mountTimer
  /\ heightTimers = <<"continuous">>
  /\ sampleTimers = 0
  /\ measureTimers = 0
  /\ inflight = {}
  /\ nQueries = 0

\* the queries of measureItemHeights executed, callback not yet delivered
ContinuousInflight(queries) == {q \in queries : q.kind = "continuous"}

\* C15: while isScrolling is true no continuous measurement is performed: no
\* step taken while scrolling fires a measureDelay timer of a non-initial
\* pass, starts or fires the timer of measureItemHeights, executes its
\* geometry query or applies the query's callback.
C15_NoContinuousWhileScrolling ==
  [][isScrolling =>
       /\ ~(/\ heightTimers # <<>>
            /\ Head(heightTimers) = "continuous"
            /\ heightTimers' = Tail(heightTimers))
       /\ measureTimers' = measureTimers
       /\ ContinuousInflight(inflight') = ContinuousInflight(inflight)]_vars

\* C16: in every reachable state, also after the list was replaced by a shorter
\* or an empty one and a geometry callback arrived late, itemHeights has as many
\* entries as the source list has items, each of them a defined height of at
\* least 1.
C16_HeightTableMatchesList ==
  /\ Len(itemHeights) = copyLen
  /\ \A i \in 0..(copyLen - 1) :
       /\ ArrGet(itemHeights, i) # Undefined
       /\ RLe(Int2R(1), ArrGet(itemHeights, i))

\* C17: with positionMode = 'absolute', in the state every handler leaves, each
\* materialized item of index i > 0 has translateY = CumulativeHeights[i - 1],
\* the sum of the current heights of the items before i, and the item of index
\* 0 has translateY = 0.
C17_AbsolutePositions ==
  props.positionMode = "absolute" =>
    \A k \in DOMAIN virtualList :
      LET i == virtualList[k].index
      IN virtualList[k].translateY =
           IF i = 0 THEN Int2R(0) ELSE ArrGet(accumulatedHeights, i - 1)

\* C18: with positionMode = 'cumulative', in the state every handler leaves,
\* each materialized item of index i > 0 whose predecessor i - 1 is materialized
\* has translateY(i) = translateY(i - 1) + HeightTable[i - 1], and each whose
\* predecessor is not materialized has translateY(i) = CumulativeHeights[i - 1].
C18_CumulativePositions ==
  props.positionMode = "cumulative" =>
    \A k \in DOMAIN virtualList :
      LET i == virtualList[k].index
          prevPos == FindPos(virtualList, i - 1)
      IN i > 0 =>
           virtualList[k].translateY =
             IF prevPos # 0
             THEN RAdd(virtualList[prevPos].translateY,
                       HeightOf(itemHeights, averageHeight, i - 1))
             ELSE ArrGet(accumulatedHeights, i - 1)

\* C19: the bottom-boundary notification never decreases currentIndex and the
\* top-boundary notification never increases it, each moves it by at most
\* floor(virtualListLength / 3), and in every reachable state, also after the
\* list was replaced by a shorter one, currentIndex lies in
\* [0, max(0, N - virtualListLength)].
C19_CurrentIndexInRange ==
  /\ LET lower == handleScrollToLower(Cur).currentIndex
     IN /\ lower >= currentIndex
        /\ lower - currentIndex <= VirtualListLength \div 3
  /\ LET upper == handleScrollToUpper(Cur).currentIndex
     IN /\ upper <= currentIndex
        /\ currentIndex - upper <= VirtualListLength \div 3
  /\ currentIndex >= 0
  /\ currentIndex <= Max(0, copyLen - VirtualListLength)

\* ------------------------------------- the window before any measurement
\* the runs in which the list is replaced and scrolled before a measurement
\* timer has fired, with at most MaxWindowEvents inputs of the host
MaxWindowEvents == 4

\* the handler's result s becomes the next state, as one more input of the host
WindowEvent(s) == nEvents < MaxWindowEvents /\ Commit(Event(s))

WindowNext ==
  \/ \E n \in ListLens : WindowEvent(watchList(Cur, n))
  \/ \E scrollTop \in ScrollTops :
       throttleReady /\ WindowEvent(handleScrollThrottled(Cur, scrollTop))
  \/ ThrottleElapse
  \/ CalcTimerFire
  \/ ScrollTimeoutFire
  \/ WindowEvent(handleScrollToLower(Cur))
  \/ WindowEvent(handleScrollToUpper(Cur))

WindowSpec == Init /\ [][WindowNext]_vars

\* C20: whenever the source list is non-empty, the materialized window is
\* non-empty.
C20_WindowNonEmpty ==
  copyLen > 0 => virtualList # <<>>

====
